---- MODULE Spec2Model ----
(***************************************************************************)
(* The data cleaning and aggregation pipeline of enrollment_vizualization  *)
(* (load_data, date parsing, drop_duplicates, state standardization,       *)
(* feature engineering, fillna) for the three sections of the dashboard.   *)
(*                                                                         *)
(* A table is a sequence of rows.  A cell of a table is a record           *)
(*   [k, s, n, d]:  k = "str" (text s, a sequence of characters),          *)
(*                  k = "num" (the rational n/d, d > 0; integers have d=1),*)
(*                  k = "nan" (missing), k = "inf" (n = sign, from x/0).   *)
(* Floating point division is modelled as exact rational division.         *)
(***************************************************************************)
EXTENDS Integers, Sequences, FiniteSets, TLC

VARIABLES
    section,      \* sidebar radio: which section of the script runs
    files,        \* the partition files on disk, in files_to_load order
    pc,           \* position of the script
    df_list,      \* load_data: tables read so far
    df,           \* the section's DataFrame: [cols, rows]
    df_index,     \* the DataFrame's index labels, parallel to df.rows
    messages,     \* st.error / st.warning / st.write calls made so far
    exception,    \* the uncaught exception that ended the run, or "none"
    stats,        \* the values section 4 of the script has computed, by name
    cache,        \* st.cache_data: the stored result of load_data
    reads,        \* number of pd.read_csv calls made in the session
    run,          \* number of the script run in the session, from 1
    reruns        \* user interactions still to come, each rerunning the script

vars ==
    <<section, files, pc, df_list, df, df_index, messages, exception, stats,
      cache, reads, run, reruns>>

----------------------------------------------------------------------------
(* Bounds of the model *)

MaxRows == 3
MaxStateRows == 2
MaxDeriveRows == 1
MaxCount == 3
MaxReruns == 1

----------------------------------------------------------------------------
(* Cells *)

Str(chars) == [k |-> "str", s |-> chars, n |-> 0, d |-> 1]
Num(i) == [k |-> "num", s |-> <<>>, n |-> i, d |-> 1]
NaN == [k |-> "nan", s |-> <<>>, n |-> 0, d |-> 1]
Inf(sign) == [k |-> "inf", s |-> <<>>, n |-> sign, d |-> 1]

RECURSIVE Gcd(_, _)
Gcd(a, b) == IF b = 0 THEN a ELSE Gcd(b, a % b)

Abs(i) == IF i < 0 THEN -i ELSE i

\* the rational p/q (q # 0) in lowest terms with a positive denominator
Ratio(p, q) ==
    LET g == Gcd(Abs(p), Abs(q))
        sg == IF q < 0 THEN -1 ELSE 1
    IN  [k |-> "num", s |-> <<>>, n |-> sg * (p \div g), d |-> sg * (q \div g)]

\* Series + Series, element by element: a missing operand gives a missing sum
Add(a, b) ==
    IF a.k = "nan" \/ b.k = "nan" THEN NaN
    ELSE Ratio(a.n * b.d + b.n * a.d, a.d * b.d)

\* Series / Series, element by element, numpy float division:
\* 0/0 is NaN, x/0 is +-inf, a missing operand gives a missing quotient
Div(a, b) ==
    IF a.k = "nan" \/ b.k = "nan" THEN NaN
    ELSE IF b.n = 0 THEN (IF a.n = 0 THEN NaN ELSE Inf(IF a.n < 0 THEN -1 ELSE 1))
    ELSE Ratio(a.n * b.d, a.d * b.n)

----------------------------------------------------------------------------
(* The three sections: files_to_load and the age-bucket columns *)

Sections == {"Enrollment", "Demographic", "Biometric"}

\* len(files_to_load)
NumFiles(sec) ==
    CASE sec = "Enrollment" -> 3
      [] sec = "Demographic" -> 5
      [] sec = "Biometric" -> 4

\* the age-bucket count columns of the section's CSV schema
BucketColumns(sec) ==
    CASE sec = "Enrollment" -> <<"age_0_5", "age_5_17", "age_18_greater">>
      [] sec = "Demographic" -> <<"demo_age_5_17", "demo_age_17_">>
      [] sec = "Biometric" -> <<"bio_age_5_17", "bio_age_17_">>

NumBuckets(sec) == Len(BucketColumns(sec))

\* sidebar.checkbox("Show Data Preview", value=True): the checkbox default
show_preview == TRUE

\* pd.DataFrame(): no columns, no rows
EmptyDataFrame == [cols |-> FALSE, rows |-> <<>>]

\* DataFrame.empty
IsEmpty(frame) == ~frame.cols \/ frame.rows = <<>>

----------------------------------------------------------------------------
(* pd.to_datetime(text, format='%d-%m-%Y'): strptime's field patterns      *)
(*   %d  3[0-1]|[1-2]\d|0[1-9]|[1-9]| [1-9]                                *)
(*   %m  1[0-2]|0[1-9]|[1-9]                                               *)
(*   %Y  \d\d\d\d                                                          *)
(* matched against the whole text, then the calendar check of the day.     *)

Digits == <<"0", "1", "2", "3", "4", "5", "6", "7", "8", "9">>

IsDigit(c) == \E i \in 1..10 : Digits[i] = c

DigitVal(c) == (CHOOSE i \in 1..10 : Digits[i] = c) - 1

\* value of the day field, 0 when the text does not match %d
DayField(t) ==
    IF Len(t) = 1 /\ IsDigit(t[1]) /\ DigitVal(t[1]) >= 1 THEN DigitVal(t[1])
    ELSE IF Len(t) = 2 /\ t[1] = " " /\ IsDigit(t[2]) /\ DigitVal(t[2]) >= 1
        THEN DigitVal(t[2])
    ELSE IF Len(t) = 2 /\ IsDigit(t[1]) /\ IsDigit(t[2])
        THEN LET v == 10 * DigitVal(t[1]) + DigitVal(t[2])
             IN  IF v >= 1 /\ v <= 31 THEN v ELSE 0
    ELSE 0

\* value of the month field, 0 when the text does not match %m
MonthField(t) ==
    IF Len(t) = 1 /\ IsDigit(t[1]) /\ DigitVal(t[1]) >= 1 THEN DigitVal(t[1])
    ELSE IF Len(t) = 2 /\ IsDigit(t[1]) /\ IsDigit(t[2])
        THEN LET v == 10 * DigitVal(t[1]) + DigitVal(t[2])
             IN  IF v >= 1 /\ v <= 12 THEN v ELSE 0
    ELSE 0

\* value of the year field, -1 when the text does not match %Y
YearField(t) ==
    IF Len(t) = 4 /\ \A i \in 1..4 : IsDigit(t[i])
    THEN 1000 * DigitVal(t[1]) + 100 * DigitVal(t[2])
         + 10 * DigitVal(t[3]) + DigitVal(t[4])
    ELSE -1

IsLeap(y) == (y % 4 = 0 /\ y % 100 # 0) \/ y % 400 = 0

DaysInMonth(y, m) ==
    IF m = 2 THEN (IF IsLeap(y) THEN 29 ELSE 28)
    ELSE IF m \in {4, 6, 9, 11} THEN 30 ELSE 31

NaT == [y |-> 0, m |-> 0, d |-> 0]

\* the Timestamp of a date text, or NaT when the text does not parse
\* (for which to_datetime raises ValueError)
ParseDate(text) ==
    LET dashes == {i \in 1..Len(text) : text[i] = "-"}
    IN  IF Cardinality(dashes) # 2 THEN NaT
        ELSE LET p1 == CHOOSE i \in dashes : \A j \in dashes : i <= j
                 p2 == CHOOSE i \in dashes : \A j \in dashes : j <= i
                 dd == DayField(SubSeq(text, 1, p1 - 1))
                 mm == MonthField(SubSeq(text, p1 + 1, p2 - 1))
                 yy == YearField(SubSeq(text, p2 + 1, Len(text)))
             IN  IF dd = 0 \/ mm = 0 \/ yy < 1 THEN NaT
                 ELSE IF dd > DaysInMonth(yy, mm) THEN NaT
                 ELSE [y |-> yy, m |-> mm, d |-> dd]

----------------------------------------------------------------------------
(* Tables *)

RECURSIVE Flatten(_)
\* pd.concat(df_list, ignore_index=True): the tables' rows, in list order
Flatten(tables) ==
    IF tables = <<>> THEN <<>> ELSE Head(tables) \o Flatten(Tail(tables))

\* RangeIndex(n): the labels 0 .. n-1
RangeIndex(n) == [i \in 1..n |-> i - 1]

RECURSIVE KeepFirst(_, _)
\* the positions of t, up to position i, that no earlier position equals
KeepFirst(t, i) ==
    IF i = 0 THEN <<>>
    ELSE IF \E j \in 1..(i - 1) : t[j] = t[i] THEN KeepFirst(t, i - 1)
    ELSE Append(KeepFirst(t, i - 1), i)

RECURSIVE KeepLast(_, _)
KeepLast(t, i) ==
    IF i > Len(t) THEN <<>>
    ELSE IF \E j \in (i + 1)..Len(t) : t[j] = t[i] THEN KeepLast(t, i + 1)
    ELSE <<i>> \o KeepLast(t, i + 1)

\* drop_duplicates(keep='last')
LastOccurrences(t) == KeepLast(t, 1)

RECURSIVE KeepFirstBut(_, _)
KeepFirstBut(t, i) ==
    IF i = 0 THEN <<>>
    ELSE IF \E j \in 1..(i - 1) :
                [t[j] EXCEPT !.date = NaT] = [t[i] EXCEPT !.date = NaT]
        THEN KeepFirstBut(t, i - 1)
    ELSE Append(KeepFirstBut(t, i - 1), i)

\* drop_duplicates on every column but 'date'
FirstOccurrencesButDate(t) == KeepFirstBut(t, Len(t))

\* DataFrame.drop_duplicates() (keep='first', all columns): the positions kept
FirstOccurrences(t) == KeepFirst(t, Len(t))

drop_duplicates(t) ==
    LET keep == FirstOccurrences(t)
    IN  [i \in 1..Len(keep) |-> t[keep[i]]]

\* the table with every date text replaced by its Timestamp
to_datetime(t) == [i \in 1..Len(t) |-> [t[i] EXCEPT !.date = ParseDate(t[i].date)]]

----------------------------------------------------------------------------
(* load_data, decorated with st.cache_data *)

\* the cache before the first call of load_data
NoCache == [hit |-> FALSE, value |-> EmptyDataFrame, messages |-> <<>>]

\* st.cache_data stores the value load_data returns, and the st elements it
\* wrote, when the body has run
Stored(value, written) == [hit |-> TRUE, value |-> value, messages |-> written]

\* st.cache_resource: a hit returns the stored object itself, which the
\* earlier run has changed in place
cache_resource_hit(stored, live) == live

\* st.cache_data: a hit returns a new copy of the value as it was stored;
\* the object an earlier run got and changed in place is not that value
cache_data_hit(stored, live) == stored

\* the file the loop of load_data is about to read
CurrentFile == Len(df_list) + 1

\* df_list.append(pd.read_csv(file_path))
ReadCsv ==
    /\ pc = "load_data"
    /\ ~cache.hit
    /\ CurrentFile <= NumFiles(section)
    /\ files[CurrentFile].status = "ok"
    /\ df_list' = Append(df_list, files[CurrentFile].rows)
    /\ reads' = reads + 1
    /\ UNCHANGED <<section, files, pc, df, df_index, messages, exception,
                 stats, cache, run, reruns>>

\* a loader that reports the missing file and goes on with the next one
ReadNotFoundSkip ==
    /\ pc = "load_data"
    /\ ~cache.hit
    /\ CurrentFile <= NumFiles(section)
    /\ files[CurrentFile].status = "missing"
    /\ messages' = Append(messages, "st.error: not found")
    /\ df_list' = Append(df_list, <<>>)
    /\ reads' = reads + 1
    /\ UNCHANGED <<section, files, pc, df, df_index, exception, stats, cache,
                 run, reruns>>

\* except FileNotFoundError: st.error(...); return pd.DataFrame()
ReadNotFound ==
    /\ pc = "load_data"
    /\ ~cache.hit
    /\ CurrentFile <= NumFiles(section)
    /\ files[CurrentFile].status = "missing"
    /\ messages' = Append(messages, "st.error: not found")
    /\ df' = EmptyDataFrame
    /\ df_index' = <<>>
    /\ reads' = reads + 1
    /\ cache' = Stored(df', messages')
    /\ pc' = "loaded"
    /\ UNCHANGED <<section, files, df_list, exception, stats, run, reruns>>

\* except Exception as e: st.error(...); return pd.DataFrame()
ReadError ==
    /\ pc = "load_data"
    /\ ~cache.hit
    /\ CurrentFile <= NumFiles(section)
    /\ files[CurrentFile].status = "unreadable"
    /\ messages' = Append(messages, "st.error: error loading")
    /\ df' = EmptyDataFrame
    /\ df_index' = <<>>
    /\ reads' = reads + 1
    /\ cache' = Stored(df', messages')
    /\ pc' = "loaded"
    /\ UNCHANGED <<section, files, df_list, exception, stats, run, reruns>>

\* after the loop: if df_list: pd.concat(...) else: st.warning(...); return
Concat ==
    /\ pc = "load_data"
    /\ ~cache.hit
    /\ CurrentFile > NumFiles(section)
    /\ IF df_list # <<>>
       THEN /\ df' = [cols |-> TRUE, rows |-> Flatten(df_list)]
            /\ df_index' = RangeIndex(Len(Flatten(df_list)))
            /\ UNCHANGED messages
       ELSE /\ df' = EmptyDataFrame
            /\ df_index' = <<>>
            /\ messages' = Append(messages, "st.warning: no data loaded")
    /\ cache' = Stored(df', messages')
    /\ pc' = "loaded"
    /\ UNCHANGED <<section, files, df_list, exception, stats, reads, run,
                 reruns>>

\* load_data() when the cache holds its result: the body does not run, the
\* stored st elements are replayed and the stored value is returned
CacheHit ==
    /\ pc = "load_data"
    /\ cache.hit
    /\ df' = cache_data_hit(cache.value, df)
    /\ df_index' = RangeIndex(Len(df'.rows))
    /\ messages' = messages \o cache.messages
    /\ pc' = "loaded"
    /\ UNCHANGED <<section, files, df_list, exception, stats, cache, reads, run,
                 reruns>>

----------------------------------------------------------------------------
(* The section's script after load_data *)

\* if not df.empty: if show_preview: st.write(df.head())
Preview ==
    /\ pc = "loaded"
    /\ messages' = IF ~IsEmpty(df) /\ show_preview
                   THEN Append(messages, "st.write: raw data preview")
                   ELSE messages
    /\ pc' = "to_datetime"
    /\ UNCHANGED <<section, files, df_list, df, df_index, exception, stats,
                 cache, reads, run, reruns>>

\* df['date'] on a DataFrame without columns
ParseDatesKeyError ==
    /\ pc = "to_datetime"
    /\ ~df.cols
    /\ exception' = "KeyError"
    /\ pc' = "crashed"
    /\ UNCHANGED <<section, files, df_list, df, df_index, messages, stats,
                 cache, reads, run, reruns>>

\* errors='coerce' and a dropna on the date: the rows that do not parse
\* are left out and the script goes on with the others
ParseDatesCoerce ==
    /\ pc = "to_datetime"
    /\ df.cols
    /\ \E i \in 1..Len(df.rows) : ParseDate(df.rows[i].date) = NaT
    /\ df' = [df EXCEPT !.rows =
                  to_datetime(SelectSeq(df.rows,
                                        LAMBDA row : ParseDate(row.date) # NaT))]
    /\ df_index' = RangeIndex(Len(df'.rows))
    /\ pc' = "drop_duplicates"
    /\ UNCHANGED <<section, files, df_list, messages, exception, stats, cache,
                 reads, run, reruns>>

\* pd.to_datetime raises on a text that does not match the format
ParseDatesValueError ==
    /\ pc = "to_datetime"
    /\ df.cols
    /\ \E i \in 1..Len(df.rows) : ParseDate(df.rows[i].date) = NaT
    /\ exception' = "ValueError"
    /\ pc' = "crashed"
    /\ UNCHANGED <<section, files, df_list, df, df_index, messages, stats,
                 cache, reads, run, reruns>>

\* df['date'] = pd.to_datetime(df['date'], format='%d-%m-%Y')
ParseDates ==
    /\ pc = "to_datetime"
    /\ df.cols
    /\ \A i \in 1..Len(df.rows) : ParseDate(df.rows[i].date) # NaT
    /\ df' = [df EXCEPT !.rows = to_datetime(df.rows)]
    /\ pc' = "drop_duplicates"
    /\ UNCHANGED <<section, files, df_list, df_index, messages, exception,
                 stats, cache, reads, run, reruns>>

\* df.drop_duplicates(inplace=True): the kept rows keep their index labels
DropDuplicates ==
    /\ pc = "drop_duplicates"
    /\ df' = [df EXCEPT !.rows = drop_duplicates(df.rows)]
    /\ df_index' = LET keep == FirstOccurrences(df.rows)
                   IN  [i \in 1..Len(keep) |-> df_index[keep[i]]]
    /\ pc' = "reset_index"
    /\ UNCHANGED <<section, files, df_list, messages, exception, stats, cache,
                 reads, run, reruns>>

\* df.reset_index(drop=True, inplace=True)
ResetIndex ==
    /\ pc = "reset_index"
    /\ df_index' = RangeIndex(Len(df.rows))
    /\ pc' = "standardize_state"
    /\ UNCHANGED <<section, files, df_list, df, messages, exception, stats,
                 cache, reads, run, reruns>>

----------------------------------------------------------------------------
(* State standardization: the texts of the six rewrite rules, as sequences *)
(* of characters                                                           *)

txt_West == <<"W", "e", "s", "t">>
txt_Bengal == <<"B", "e", "n", "g", "a", "l">>
txt_West_Bengal == <<"W", "e", "s", "t", " ", "B", "e", "n", "g", "a", "l">>
txt_Westbengal == <<"W", "e", "s", "t", "b", "e", "n", "g", "a", "l">>
txt_WEST_BENGAL == <<"W", "E", "S", "T", " ", "B", "E", "N", "G", "A", "L">>
txt_West_Bangal == <<"W", "e", "s", "t", " ", "B", "a", "n", "g", "a", "l">>
txt_Orissa == <<"O", "r", "i", "s", "s", "a">>
txt_Odisha == <<"O", "d", "i", "s", "h", "a">>
txt_Jammu_and_Kashmir ==
    <<"J", "a", "m", "m", "u", " ", "a", "n", "d", " ", "K", "a", "s", "h",
      "m", "i", "r">>
txt_Jammu_amp_Kashmir ==
    <<"J", "a", "m", "m", "u", " ", "&", " ", "K", "a", "s", "h", "m", "i",
      "r">>
txt_Jammu_And_Kashmir ==
    <<"J", "a", "m", "m", "u", " ", "A", "n", "d", " ", "K", "a", "s", "h",
      "m", "i", "r">>
txt_Dadra_and_Nagar_Haveli_and_Daman_and_Diu ==
    <<"D", "a", "d", "r", "a", " ", "a", "n", "d", " ", "N", "a", "g", "a",
      "r", " ", "H", "a", "v", "e", "l", "i", " ", "a", "n", "d", " ", "D",
      "a", "m", "a", "n", " ", "a", "n", "d", " ", "D", "i", "u">>
txt_Dadra_and_Nagar_Haveli ==
    <<"D", "a", "d", "r", "a", " ", "a", "n", "d", " ", "N", "a", "g", "a",
      "r", " ", "H", "a", "v", "e", "l", "i">>
txt_Dadra_amp_Nagar_Haveli ==
    <<"D", "a", "d", "r", "a", " ", "&", " ", "N", "a", "g", "a", "r", " ",
      "H", "a", "v", "e", "l", "i">>
txt_Daman_and_Diu ==
    <<"D", "a", "m", "a", "n", " ", "a", "n", "d", " ", "D", "i", "u">>
txt_Daman_amp_Diu == <<"D", "a", "m", "a", "n", " ", "&", " ", "D", "i", "u">>
txt_andhra_pradesh ==
    <<"a", "n", "d", "h", "r", "a", " ", "p", "r", "a", "d", "e", "s", "h">>
txt_Andhra_Pradesh ==
    <<"A", "n", "d", "h", "r", "a", " ", "P", "r", "a", "d", "e", "s", "h">>
txt_100000 == <<"1", "0", "0", "0", "0", "0">>
txt_Unknown == <<"U", "n", "k", "n", "o", "w", "n">>

\* the characters the regular expression class \s matches
Whitespace == {" ", "\t", "\n", "\r"}

\* the literal lit occurs in text at position i
LitAt(text, i, lit) ==
    /\ i + Len(lit) - 1 <= Len(text)
    /\ \A j \in 1..Len(lit) : text[i + j - 1] = lit[j]

RECURSIVE SkipSpace(_, _)
\* \s*, greedy: the first position from i on that holds no whitespace
SkipSpace(text, i) ==
    IF i <= Len(text) /\ text[i] \in Whitespace THEN SkipSpace(text, i + 1) ELSE i

RECURSIVE AltEnd(_, _, _)
\* One alternative of a pattern is a sequence of literals with \s* between
\* them.  The position after its match at i, or 0 when it does not match.
AltEnd(parts, text, i) ==
    IF ~LitAt(text, i, Head(parts)) THEN 0
    ELSE IF Len(parts) = 1 THEN i + Len(Head(parts))
    ELSE AltEnd(Tail(parts), text, SkipSpace(text, i + Len(Head(parts))))

RECURSIVE MatchEnd(_, _, _)
\* a|b|c at position i: the first alternative that matches decides
MatchEnd(alts, text, i) ==
    IF alts = <<>> THEN 0
    ELSE LET e == AltEnd(Head(alts), text, i)
         IN  IF e > 0 THEN e ELSE MatchEnd(Tail(alts), text, i)

RECURSIVE ReSub(_, _, _, _)
\* re.sub / str.replace from position i: leftmost non-overlapping matches,
\* case-sensitive, each replaced by repl; the text between matches is kept
ReSub(alts, repl, text, i) ==
    LET starts == {j \in i..Len(text) : MatchEnd(alts, text, j) > 0}
    IN  IF starts = {} THEN SubSeq(text, i, Len(text))
        ELSE LET j == CHOOSE m \in starts : \A o \in starts : m <= o
             IN  SubSeq(text, i, j - 1) \o repl
                     \o ReSub(alts, repl, text, MatchEnd(alts, text, j))

\* the pattern occurs somewhere in the text
Search(alts, text) == \E i \in 1..Len(text) : MatchEnd(alts, text, i) > 0

\* the pattern without its upper-case alternative
WestBengalPatternNoUpper ==
    << <<txt_West, txt_Bengal>>, <<txt_Westbengal>>, <<txt_West_Bangal>> >>

\* r'West\s*Bengal|Westbengal|WEST BENGAL|West Bangal'
WestBengalPattern ==
    << <<txt_West, txt_Bengal>>, <<txt_Westbengal>>, <<txt_WEST_BENGAL>>,
       <<txt_West_Bangal>> >>

\* the pattern in lower case
OrissaPatternLower == << << <<"o", "r", "i", "s", "s", "a">> >> >>

\* 'Orissa', regex=False
OrissaPattern == << <<txt_Orissa>> >>

\* r'Jammu and Kashmir|Jammu & Kashmir|Jammu And Kashmir'
JammuPattern ==
    << <<txt_Jammu_and_Kashmir>>, <<txt_Jammu_amp_Kashmir>>,
       <<txt_Jammu_And_Kashmir>> >>

\* the alternatives with the longest one last instead of first
DadraPatternLongestLast ==
    << <<txt_Dadra_and_Nagar_Haveli>>, <<txt_Dadra_amp_Nagar_Haveli>>,
       <<txt_Daman_and_Diu>>, <<txt_Daman_amp_Diu>>,
       <<txt_Dadra_and_Nagar_Haveli_and_Daman_and_Diu>> >>

\* r'Dadra and Nagar Haveli and Daman and Diu|Dadra and Nagar Haveli
\*   |Dadra & Nagar Haveli|Daman and Diu|Daman & Diu'
DadraPattern ==
    << <<txt_Dadra_and_Nagar_Haveli_and_Daman_and_Diu>>,
       <<txt_Dadra_and_Nagar_Haveli>>, <<txt_Dadra_amp_Nagar_Haveli>>,
       <<txt_Daman_and_Diu>>, <<txt_Daman_amp_Diu>> >>

\* 'andhra pradesh', regex=False
AndhraPattern == << <<txt_andhra_pradesh>> >>

\* Series.str.replace on one cell: a missing value stays missing
StrReplace(cell, alts, repl) ==
    IF cell.k = "str" THEN Str(ReSub(alts, repl, cell.s, 1)) ELSE cell

\* df.loc[df['state'] == '100000', 'state'] = 'Unknown'
ReplaceCorrupt(cell) ==
    IF cell.k = "str" /\ cell.s = txt_100000 THEN Str(txt_Unknown) ELSE cell

\* the six statements of "Standardize 'state' column", in order, on one cell
StandardizeCell(cell) ==
    LET c1 == StrReplace(cell, WestBengalPattern, txt_West_Bengal)
        c2 == StrReplace(c1, OrissaPattern, txt_Odisha)
        c3 == StrReplace(c2, JammuPattern, txt_Jammu_and_Kashmir)
        c4 == StrReplace(c3, DadraPattern,
                         txt_Dadra_and_Nagar_Haveli_and_Daman_and_Diu)
        c5 == StrReplace(c4, AndhraPattern, txt_Andhra_Pradesh)
    IN  ReplaceCorrupt(c5)

\* the six statements followed by a second drop_duplicates
standardize_state_dedup(t) ==
    drop_duplicates(
        [i \in 1..Len(t) |->
            [t[i] EXCEPT !.state = StandardizeCell(t[i].state)]])

standardize_state(t) ==
    [i \in 1..Len(t) |-> [t[i] EXCEPT !.state = StandardizeCell(t[i].state)]]

\* the six statements on the 'state' column
StandardizeState ==
    /\ pc = "standardize_state"
    /\ df' = [df EXCEPT !.rows = standardize_state(df.rows)]
    /\ pc' = "feature_engineering"
    /\ UNCHANGED <<section, files, df_list, df_index, messages, exception,
                 stats, cache, reads, run, reruns>>

----------------------------------------------------------------------------
(* Feature engineering and fillna *)

RECURSIVE SumCells(_)
\* age_a + age_b (+ age_c), left to right
SumCells(cells) ==
    IF Len(cells) = 1 THEN cells[1]
    ELSE Add(SumCells(SubSeq(cells, 1, Len(cells) - 1)), cells[Len(cells)])

\* the derived columns of one row: total, year, month and one proportion
\* for each age bucket
DeriveRow(row) ==
    LET total == SumCells(row.counts)
    IN  [date |-> row.date, state |-> row.state, district |-> row.district,
         pincode |-> row.pincode, counts |-> row.counts,
         total |-> total,
         year |-> Num(row.date.y),
         month |-> Num(row.date.m),
         props |-> [b \in 1..Len(row.counts) |-> Div(row.counts[b], total)]]

feature_engineering(t) == [i \in 1..Len(t) |-> DeriveRow(t[i])]

\* no fill at all
FillCellOmitted(cell) == cell

\* fillna(0) on one cell
FillCell(cell) == IF cell.k = "nan" THEN Num(0) ELSE cell

\* a fill of the count, total and proportion columns only
FillRowCountsOnly(row) ==
    [date |-> row.date, state |-> row.state, district |-> row.district,
     pincode |-> row.pincode,
     counts |-> [b \in 1..Len(row.counts) |-> FillCell(row.counts[b])],
     total |-> FillCell(row.total),
     year |-> row.year,
     month |-> row.month,
     props |-> [b \in 1..Len(row.props) |-> FillCell(row.props[b])]]

\* DataFrame.fillna(0): every missing cell of every column becomes 0
FillRow(row) ==
    [date |-> row.date, state |-> FillCell(row.state),
     district |-> FillCell(row.district), pincode |-> FillCell(row.pincode),
     counts |-> [b \in 1..Len(row.counts) |-> FillCell(row.counts[b])],
     total |-> FillCell(row.total),
     year |-> FillCell(row.year),
     month |-> FillCell(row.month),
     props |-> [b \in 1..Len(row.props) |-> FillCell(row.props[b])]]

fillna(t) == [i \in 1..Len(t) |-> FillRow(t[i])]

\* total_<section>, year, month and the prop_ columns
FeatureEngineering ==
    /\ pc = "feature_engineering"
    /\ df' = [df EXCEPT !.rows = feature_engineering(df.rows)]
    /\ pc' = "fillna"
    /\ UNCHANGED <<section, files, df_list, df_index, messages, exception,
                 stats, cache, reads, run, reruns>>

\* df.fillna(0, inplace=True)
Fillna ==
    /\ pc = "fillna"
    /\ df' = [df EXCEPT !.rows = fillna(df.rows)]
    /\ pc' = "statistics"
    /\ UNCHANGED <<section, files, df_list, df_index, messages, exception,
                 stats, cache, reads, run, reruns>>

----------------------------------------------------------------------------
(* Section 4 of the script: rankings, time series, age-group percentages   *)
(* and concentration indices                                               *)

\* st.dataframe(ranking.head(10))
TopN == 10

\* the characters of the model's texts in code point order
Alphabet ==
    <<" ", "&", "-", "0", "1", "2", "3", "4", "5", "6", "7", "8", "9",
      "A", "B", "C", "D", "E", "F", "G", "H", "I", "J", "K", "L", "M", "N",
      "O", "P", "Q", "R", "S", "T", "U", "V", "W", "X", "Y", "Z",
      "a", "b", "c", "d", "e", "f", "g", "h", "i", "j", "k", "l", "m", "n",
      "o", "p", "q", "r", "s", "t", "u", "v", "w", "x", "y", "z">>

Ord(c) == CHOOSE i \in 1..Len(Alphabet) : Alphabet[i] = c

RECURSIVE TextLess(_, _)
\* str < str: by the first character that differs, a prefix first
TextLess(a, b) ==
    IF b = <<>> THEN FALSE
    ELSE IF a = <<>> THEN TRUE
    ELSE IF Head(a) # Head(b) THEN Ord(Head(a)) < Ord(Head(b))
    ELSE TextLess(Tail(a), Tail(b))

\* number < number
NumLess(a, b) == a.n * b.d < b.n * a.d

\* the order in which groupby (sort=True) puts its keys: numbers by value,
\* texts by code points, and in a column that holds both the numbers first
KeyLess(a, b) ==
    IF a.k = "str" /\ b.k = "str" THEN TextLess(a.s, b.s)
    ELSE IF a.k = "str" THEN FALSE
    ELSE IF b.k = "str" THEN TRUE
    ELSE NumLess(a, b)

RECURSIVE SortedKeys(_)
\* the keys of a set in groupby order
SortedKeys(keys) ==
    IF keys = {} THEN <<>>
    ELSE LET least == CHOOSE a \in keys : \A b \in keys \ {a} : KeyLess(a, b)
         IN  <<least>> \o SortedKeys(keys \ {least})

\* .last() in place of .sum(): the last value, 0 for none
SeriesLast(cells) == IF cells = <<>> THEN Num(0) ELSE cells[Len(cells)]

RECURSIVE SeriesSum(_)
\* Series.sum(): the sum of the values that are not missing, 0 for none
SeriesSum(cells) ==
    IF cells = <<>> THEN Num(0)
    ELSE LET rest == SeriesSum(SubSeq(cells, 1, Len(cells) - 1))
             last == cells[Len(cells)]
         IN  IF last.k = "nan" THEN rest ELSE Add(rest, last)

\* the rows of t whose key column holds k, in table order
RowsOfKey(t, key, k) == SelectSeq(t, LAMBDA row : row[key] = k)

\* the total column of a table
TotalColumn(t) == [i \in 1..Len(t) |-> t[i].total]

\* the values of a ranking
Sums(ranking) == [i \in 1..Len(ranking) |-> ranking[i].sum]

\* the grouping that keeps the groups in the order of their first row
groupby_sum_unsorted(t, key) ==
    LET keep == KeepFirst([i \in 1..Len(t) |-> t[i][key]], Len(t))
    IN  [i \in 1..Len(keep) |->
            [key |-> t[keep[i]][key],
             sum |-> SeriesSum(TotalColumn(RowsOfKey(t, key, t[keep[i]][key])))]]

\* df.groupby(key)['total_...'].sum(): one entry for each key of the column,
\* in groupby order, with the sum of the total column over the key's rows;
\* the rows whose key is missing are in no group (dropna=True)
groupby_sum(t, key) ==
    LET keys == SortedKeys({t[i][key] : i \in 1..Len(t)}
                               \ {NaN})
    IN  [i \in 1..Len(keys) |->
            [key |-> keys[i],
             sum |-> SeriesSum(TotalColumn(RowsOfKey(t, key, keys[i])))]]

\* the sequence without its element at position i
Without(s, i) == SubSeq(s, 1, i - 1) \o SubSeq(s, i + 1, Len(s))

\* sort_values has kind='quicksort', which is not a stable sort: which of
\* two equal values comes first is decided by the numpy build.  The model
\* has the two outcomes in which equal values keep, or reverse, the order
\* they have in the series that is sorted.
TieOrders == {"keep", "reverse"}

RECURSIVE sort_values(_, _)
\* Series.sort_values(ascending=False): the largest value first
sort_values(series, ties) ==
    IF series = <<>> THEN <<>>
    ELSE LET largest == {i \in 1..Len(series) : \A j \in 1..Len(series) :
                            ~NumLess(series[i].sum, series[j].sum)}
             i == IF ties = "keep"
                  THEN CHOOSE m \in largest : \A o \in largest : m <= o
                  ELSE CHOOSE m \in largest : \A o \in largest : o <= m
         IN  <<series[i]>> \o sort_values(Without(series, i), ties)

\* df.groupby(key)['total_...'].sum().sort_values(ascending=False)
Ranking(t, key, ties) == sort_values(groupby_sum(t, key), ties)

\* two entries of the series have equal values: the only series of which
\* the sort has more than one outcome
HasEqualValues(series) ==
    \E i, j \in 1..Len(series) : i # j /\ series[i].sum = series[j].sum

\* the last n entries
tail(series, n) ==
    SubSeq(series, IF n < Len(series) THEN Len(series) - n + 1 ELSE 1,
           Len(series))

\* Series.head(n): the first n entries, all of them if there are fewer
head(series, n) ==
    SubSeq(series, 1, IF n < Len(series) THEN n ELSE Len(series))

\* (year, month) pairs in groupby order: by year, then by month
PairLess(a, b) ==
    \/ NumLess(a.year, b.year)
    \/ a.year = b.year /\ NumLess(a.month, b.month)

RECURSIVE SortedPairs(_)
SortedPairs(pairs) ==
    IF pairs = {} THEN <<>>
    ELSE LET least == CHOOSE a \in pairs : \A b \in pairs \ {a} : PairLess(a, b)
         IN  <<least>> \o SortedPairs(pairs \ {least})

\* the rows of t of one (year, month) pair
RowsOfPair(t, pair) ==
    SelectSeq(t, LAMBDA row : row.year = pair.year /\ row.month = pair.month)

\* the time series with the pairs in the order of their first row
groupby_year_month_unsorted(t) ==
    LET pairs == [i \in 1..Len(t) |-> [year |-> t[i].year, month |-> t[i].month]]
        keep == KeepFirst(pairs, Len(t))
    IN  [i \in 1..Len(keep) |->
            [year |-> pairs[keep[i]].year, month |-> pairs[keep[i]].month,
             total |-> SeriesSum(TotalColumn(RowsOfPair(t, pairs[keep[i]])))]]

\* df.groupby(['year', 'month'])['total_...'].sum().reset_index()
groupby_year_month(t) ==
    LET pairs == SortedPairs({[year |-> t[i].year, month |-> t[i].month] :
                                 i \in 1..Len(t)})
    IN  [i \in 1..Len(pairs) |->
            [year |-> pairs[i].year, month |-> pairs[i].month,
             total |-> SeriesSum(TotalColumn(RowsOfPair(t, pairs[i])))]]

\* x * 100 (a missing value stays missing)
Times100(cell) ==
    IF cell.k = "num" THEN Ratio(cell.n * 100, cell.d) ELSE cell

\* the percentage of the entries after the first n
tail_percentage(ranking, n) ==
    Times100(Div(SeriesSum(Sums(tail(ranking, Len(ranking) - n))),
                 SeriesSum(Sums(ranking))))

\* (ranking.head(n).sum() / ranking.sum()) * 100
concentration_percentage(ranking, n) ==
    Times100(Div(SeriesSum(Sums(head(ranking, n))), SeriesSum(Sums(ranking))))

\* int(num_unique * 0.10) without the max(1, ...)
top_decile_floor(num_unique) == num_unique \div 10

\* a tenth of the keys, rounded up
top_decile_ceiling(num_unique) ==
    IF (num_unique + 9) \div 10 > 1 THEN (num_unique + 9) \div 10 ELSE 1

\* max(1, int(num_unique * 0.10)): int() cuts the fraction off, and the
\* float product num_unique * 0.10 is never below num_unique / 10
top_decile(num_unique) ==
    IF num_unique \div 10 > 1 THEN num_unique \div 10 ELSE 1

\* the bucket column b of a table
BucketColumn(t, b) == [i \in 1..Len(t) |-> t[i].counts[b]]

\* df.groupby(['year', 'month'])[[bucket columns]].sum().reset_index()
groupby_year_month_buckets(t) ==
    LET pairs == SortedPairs({[year |-> t[i].year, month |-> t[i].month] :
                                 i \in 1..Len(t)})
    IN  [i \in 1..Len(pairs) |->
            [year |-> pairs[i].year, month |-> pairs[i].month,
             counts |-> [b \in 1..Len(t[1].counts) |->
                            SeriesSum(BucketColumn(RowsOfPair(t, pairs[i]),
                                                   b))]]]

RECURSIVE NatText(_)
\* str(n) of a natural number
NatText(n) ==
    IF n < 10 THEN <<Digits[n + 1]>>
    ELSE NatText(n \div 10) \o <<Digits[(n % 10) + 1]>>

\* Series.astype(str) on one cell of the integer columns year and month
astype_str(cell) == NatText(cell.n)

\* frame['year'].astype(str) + '-' + frame['month'].astype(str)
YearMonth(row) == astype_str(row.year) \o <<"-">> \o astype_str(row.month)

\* age_group_map: the label of each bucket column
age_group_map(sec) ==
    CASE sec = "Enrollment" -> <<"0-5 Years", "5-17 Years", "18+ Years">>
      [] sec = "Demographic" -> <<"5-17 Years", "17+ Years">>
      [] sec = "Biometric" -> <<"5-17 Years", "17+ Years">>

\* the rows melt makes of one value column: one for each row of the frame,
\* in the frame's order
MeltColumn(frame, sec, b) ==
    [i \in 1..Len(frame) |->
        [YearMonth |-> YearMonth(frame[i]), year |-> frame[i].year,
         month |-> frame[i].month, group |-> BucketColumns(sec)[b],
         value |-> frame[i].counts[b]]]

\* a melt of the first value column only
melt_first_value_var(frame, sec) == MeltColumn(frame, sec, 1)

\* frame.melt(id_vars=['YearMonth', 'year', 'month'], value_vars=[bucket
\* columns], var_name='Age Group', value_name=...): the rows of the first
\* value column, then those of the second, and so on
melt(frame, sec) ==
    Flatten([b \in 1..NumBuckets(sec) |-> MeltColumn(frame, sec, b)])

\* df_melted['Age Group'].map(age_group_map)
MapAgeGroup(melted, sec) ==
    [i \in 1..Len(melted) |->
        [melted[i] EXCEPT !.group =
            LET b == CHOOSE c \in 1..NumBuckets(sec) :
                         BucketColumns(sec)[c] = melted[i].group
            IN  age_group_map(sec)[b]]]

\* the section 4 values before they are computed
NoStats ==
    [ties |-> "none", by_state |-> <<>>, by_district |-> <<>>,
     by_pincode |-> <<>>, top_state |-> <<>>, top_district |-> <<>>,
     top_pincode |-> <<>>, over_time |-> <<>>, age_totals |-> <<>>,
     percentages |-> <<>>, n_districts |-> 0,
     district_concentration_percentage |-> NaN, n_pincodes |-> 0,
     pincode_concentration_percentage |-> NaN, by_age_over_time |-> <<>>,
     df_melted |-> <<>>]

\* <x>_by_state, _by_district, _by_pincode and the three head(10) views;
\* the sort has one outcome, recorded as "keep", unless some series has
\* equal values
Rankings ==
    /\ pc = "statistics"
    /\ \E ties \in IF \E key \in {"state", "district", "pincode"} :
                         HasEqualValues(groupby_sum(df.rows, key))
                    THEN TieOrders
                    ELSE {"keep"} :
           LET by_state == Ranking(df.rows, "state", ties)
               by_district == Ranking(df.rows, "district", ties)
               by_pincode == Ranking(df.rows, "pincode", ties)
           IN  stats' = [stats EXCEPT
                            !.ties = ties,
                            !.by_state = by_state,
                            !.by_district = by_district,
                            !.by_pincode = by_pincode,
                            !.top_state = head(by_state, TopN),
                            !.top_district = head(by_district, TopN),
                            !.top_pincode = head(by_pincode, TopN)]
    /\ messages' = Append(messages, "st.dataframe: top 10")
    /\ pc' = "over_time"
    /\ UNCHANGED <<section, files, df_list, df, df_index, exception, cache,
                 reads, run, reruns>>

\* <x>_over_time
OverTime ==
    /\ pc = "over_time"
    /\ stats' = [stats EXCEPT !.over_time = groupby_year_month(df.rows)]
    /\ messages' = Append(messages, "st.write: totals over time")
    /\ pc' = "age_groups"
    /\ UNCHANGED <<section, files, df_list, df, df_index, exception, cache,
                 reads, run, reruns>>

\* the sum of each age-bucket column
AgeTotals(t) ==
    [b \in 1..NumBuckets(section) |->
        SeriesSum([i \in 1..Len(t) |-> t[i].counts[b]])]

\* The columns of a table without rows have dtype object, and the sum of
\* such a column is the Python int 0: total / overall is then 0 / 0 of two
\* Python ints, which raises.
AgeGroupZeroDivision ==
    /\ pc = "age_groups"
    /\ df.rows = <<>>
    /\ stats' = [stats EXCEPT !.age_totals = AgeTotals(df.rows)]
    /\ exception' = "ZeroDivisionError"
    /\ pc' = "crashed"
    /\ UNCHANGED <<section, files, df_list, df, df_index, messages, cache,
                 reads, run, reruns>>

\* total_age_<b> = df[<b>].sum(); percentage_age_<b> = total / overall * 100
\* (numpy numbers: 0 / 0 is nan and raises nothing)
AgeGroupTotals ==
    /\ pc = "age_groups"
    /\ df.rows # <<>>
    /\ LET totals == AgeTotals(df.rows)
       IN  stats' = [stats EXCEPT
                        !.age_totals = totals,
                        !.percentages =
                            [b \in 1..Len(totals) |->
                                Times100(Div(totals[b], SumCells(totals)))]]
    /\ messages' = Append(messages, "st.write: totals by age group")
    /\ pc' = "concentration"
    /\ UNCHANGED <<section, files, df_list, df, df_index, exception, cache,
                 reads, run, reruns>>

\* the district and the pincode concentration index
Concentration ==
    /\ pc = "concentration"
    /\ LET n_d == top_decile(Len(stats.by_district))
           n_p == top_decile(Len(stats.by_pincode))
       IN  stats' = [stats EXCEPT
                        !.n_districts = n_d,
                        !.district_concentration_percentage =
                            concentration_percentage(stats.by_district, n_d),
                        !.n_pincodes = n_p,
                        !.pincode_concentration_percentage =
                            concentration_percentage(stats.by_pincode, n_p)]
    /\ messages' = messages \o <<"st.write: district concentration index",
                                 "st.write: pincode concentration index">>
    /\ pc' = "by_age_over_time"
    /\ UNCHANGED <<section, files, df_list, df, df_index, exception, cache,
                 reads, run, reruns>>

\* <x>_by_age_over_time and df_melted, for the chart of the age groups over
\* time (the charts drawn before it compute no value the model holds)
ByAgeOverTime ==
    /\ pc = "by_age_over_time"
    /\ LET frame == groupby_year_month_buckets(df.rows)
       IN  stats' = [stats EXCEPT
                        !.by_age_over_time = frame,
                        !.df_melted = MapAgeGroup(melt(frame, section),
                                                  section)]
    /\ pc' = "done"
    /\ UNCHANGED <<section, files, df_list, df, df_index, messages, exception,
                 cache, reads, run, reruns>>

\* a user interaction after the script has run, or has stopped on an
\* exception: Streamlit runs the script again from the top
Rerun ==
    /\ pc \in {"done", "crashed"}
    /\ reruns > 0
    /\ reruns' = reruns - 1
    /\ run' = run + 1
    /\ pc' = "load_data"
    /\ messages' = <<>>
    /\ exception' = "none"
    /\ stats' = NoStats
    /\ UNCHANGED <<section, files, df_list, df, df_index, cache, reads>>

----------------------------------------------------------------------------
(* The input files the model runs on *)

txt_WestBengal == <<"W", "e", "s", "t", "B", "e", "n", "g", "a", "l">>
txt_West__Bengal ==
    <<"W", "e", "s", "t", " ", " ", "B", "e", "n", "g", "a", "l">>
txt_west_bengal == <<"w", "e", "s", "t", " ", "b", "e", "n", "g", "a", "l">>
txt_JAMMU_amp_KASHMIR ==
    <<"J", "A", "M", "M", "U", " ", "&", " ", "K", "A", "S", "H", "M", "I",
      "R">>
txt_Kerala == <<"K", "e", "r", "a", "l", "a">>
txt_Orissa_State ==
    <<"O", "r", "i", "s", "s", "a", " ", "S", "t", "a", "t", "e">>
txt_X == <<"X">>
date_01_07_2025 == <<"0", "1", "-", "0", "7", "-", "2", "0", "2", "5">>
date_1_7_2025 == <<"1", "-", "7", "-", "2", "0", "2", "5">>
date_02_07_2025 == <<"0", "2", "-", "0", "7", "-", "2", "0", "2", "5">>
date_2025_07_01 == <<"2", "0", "2", "5", "-", "0", "7", "-", "0", "1">>

\* one row of a CSV file, as pd.read_csv returns it (text columns hold text)
Row(date, state, district, pincode, counts) ==
    [date |-> date, state |-> state, district |-> district,
     pincode |-> pincode, counts |-> counts]

\* every bucket count of the section equal to c
Counts(sec, c) == [b \in 1..NumBuckets(sec) |-> Num(c)]

\* all tables of at most n rows drawn from rows
Tables(rows, n) == UNION {[1..m -> rows] : m \in 0..n}

\* rows held by each partition file but the last, which holds the rest
ChunkSize == 1

\* the rows of table t that partition file k of n holds: contiguous row
\* ranges, as in <domain>_<rangeStart>_<rangeEnd>.csv
Chunk(t, k, n) ==
    IF k < n
    THEN SubSeq(t, (k - 1) * ChunkSize + 1,
                IF k * ChunkSize < Len(t) THEN k * ChunkSize ELSE Len(t))
    ELSE SubSeq(t, (n - 1) * ChunkSize + 1, Len(t))

\* pandas reads the state column as text (and the .str accessor applies to
\* it) when the column holds a text that is not a number; the model runs on
\* such tables and on tables without rows
IsNumeral(chars) == chars # <<>> /\ \A i \in 1..Len(chars) : IsDigit(chars[i])

TextColumn(t) ==
    t = <<>> \/ \E i \in 1..Len(t) :
                   t[i].state.k = "str" /\ ~IsNumeral(t[i].state.s)

FileStatus == {"ok", "missing", "unreadable"}

\* the state of the script when the section starts, on the given files
Start(sec, t, status) ==
    /\ section = sec
    /\ files = [k \in 1..NumFiles(sec) |->
                   [status |-> status[k], rows |-> Chunk(t, k, NumFiles(sec))]]
    /\ pc = "load_data"
    /\ df_list = <<>>
    /\ df = EmptyDataFrame
    /\ df_index = <<>>
    /\ messages = <<>>
    /\ exception = "none"
    /\ stats = NoStats
    /\ cache = NoCache
    /\ reads = 0
    /\ run = 1

AllOk(sec) == [k \in 1..NumFiles(sec) |-> "ok"]

\* a few fault patterns: none, the first file missing, the last unreadable
FewFaults(sec) ==
    { AllOk(sec),
      [AllOk(sec) EXCEPT ![1] = "missing"],
      [AllOk(sec) EXCEPT ![NumFiles(sec)] = "unreadable"] }

\* rows that differ in the date text, the district and nothing else
LoadRows(sec) ==
    { Row(dt, Str(txt_Kerala), Str(txt_X), Num(1), Counts(sec, 1)) :
        dt \in {date_01_07_2025, date_1_7_2025, date_02_07_2025,
                date_2025_07_01} }

Init ==
    \E sec \in Sections :
        \E t \in Tables(LoadRows(sec), MaxRows) :
            \/ \E status \in [1..NumFiles(sec) -> FileStatus] :
                   Start(sec, t, status) /\ reruns = 0
            \/ \E status \in FewFaults(sec) :
                   Start(sec, t, status) /\ reruns \in 1..MaxReruns

Next ==
    \/ ReadCsv
    \/ ReadNotFound
    \/ ReadError
    \/ Concat
    \/ Preview
    \/ ParseDatesKeyError
    \/ ParseDatesValueError
    \/ ParseDates
    \/ DropDuplicates
    \/ ResetIndex
    \/ StandardizeState
    \/ FeatureEngineering
    \/ Fillna
    \/ Rankings
    \/ OverTime
    \/ AgeGroupZeroDivision
    \/ AgeGroupTotals
    \/ Concentration
    \/ ByAgeOverTime
    \/ Rerun
    \/ CacheHit

Spec == Init /\ [][Next]_vars

----------------------------------------------------------------------------
(* What the claims speak about *)

\* the concatenated input: the rows of all partition files, in list order
InputTable == Flatten([k \in 1..NumFiles(section) |-> files[k].rows])

\* some partition file of the section is missing or unreadable
SomeFileFails == \E k \in 1..NumFiles(section) : files[k].status # "ok"

\* load_data has reported a file it could not read
LoadFailed ==
    \E i \in 1..Len(messages) :
        messages[i] \in {"st.error: not found", "st.error: error loading"}

\* the position of the first row of t equal to r
FirstIndex(t, r) == CHOOSE i \in 1..Len(t) : t[i] = r /\ \A j \in 1..(i - 1) : t[j] # r

\* the set of the rows of a table
RowSet(t) == {t[i] : i \in 1..Len(t)}

\* drop_duplicates has just run
JustDeduplicated == pc = "reset_index"

----------------------------------------------------------------------------
\* C1: load_data is all-or-nothing.  When load_data has returned, a missing
\* or unreadable partition file means the returned table is the empty
\* DataFrame, however many earlier partitions were read; and a non-empty
\* table is returned only when every partition was read, in which case it
\* holds the rows of all partitions in order.
C1_LoadAllOrNothing ==
    pc = "loaded" =>
        /\ SomeFileFails => df = EmptyDataFrame
        /\ ~IsEmpty(df) =>
              /\ ~SomeFileFails
              /\ Len(df_list) = NumFiles(section)
              /\ df.rows = InputTable

\* a later file fails after earlier partitions with rows were read
C1_Witness ==
    /\ pc = "loaded"
    /\ SomeFileFails
    /\ Len(df_list) >= 1
    /\ Flatten(df_list) # <<>>
    /\ df = EmptyDataFrame

\* C2: when the load of a section fails, the pipeline is aborted: no later
\* stage runs on the empty table and the run does not end in an error raised
\* while computing.
C2_FailedLoadAborts ==
    LoadFailed => pc # "crashed" /\ exception = "none"

\* C3: after drop_duplicates no two rows of the table are equal on all
\* fields; every row of the table that entered the dedup is present once;
\* the row kept is the first occurrence (its index label is the position of
\* the first occurrence) and the kept rows are in the order of their first
\* occurrence in the concatenated input.
C3_DedupKeepsFirst ==
    JustDeduplicated =>
        LET input == to_datetime(InputTable)
            out == df.rows
        IN  /\ \A i, j \in 1..Len(out) : i # j => out[i] # out[j]
            /\ RowSet(out) = RowSet(input)
            /\ \A i \in 1..Len(out) :
                   df_index[i] = FirstIndex(input, out[i]) - 1
            /\ \A i, j \in 1..Len(out) :
                   i < j => FirstIndex(input, out[i]) < FirstIndex(input, out[j])

\* two byte-identical input rows, a different row between them, and exactly
\* one output row for the identical pair
C3_Witness ==
    /\ JustDeduplicated
    /\ Len(InputTable) = 3
    /\ InputTable[1] = InputTable[3]
    /\ InputTable[1].date # InputTable[2].date
    /\ ParseDate(InputTable[1].date) # ParseDate(InputTable[2].date)
    /\ Len(df.rows) = 2
    /\ df_index = <<0, 1>>

\* C4 as stated: rows are merged if and only if they are byte-for-byte equal
\* as read from the files, so the deduplicated table has one row for each
\* distinct input row (rows with different date texts are never merged).
C4_ByteEqualDuplicates ==
    JustDeduplicated => Len(df.rows) = Cardinality(RowSet(InputTable))

\* C4, amended: rows are merged if and only if they are equal on all fields
\* once the date text has been parsed to a calendar date; the deduplicated
\* table has one row for each distinct parsed row, so rows whose dates are
\* different calendar dates are never merged.
C4_ParsedEqualDuplicates ==
    JustDeduplicated =>
        /\ Len(df.rows) = Cardinality(RowSet(to_datetime(InputTable)))
        /\ \A i, j \in 1..Len(InputTable) :
               ParseDate(InputTable[i].date) # ParseDate(InputTable[j].date)
               => \E a, b \in 1..Len(df.rows) :
                      /\ a # b
                      /\ df.rows[a] = to_datetime(InputTable)[i]
                      /\ df.rows[b] = to_datetime(InputTable)[j]

\* two rows with different date texts of the same day are merged, and a row
\* of another day is kept
C4_Witness ==
    /\ JustDeduplicated
    /\ Len(InputTable) = 3
    /\ InputTable[1].date = date_01_07_2025
    /\ InputTable[2].date = date_1_7_2025
    /\ InputTable[3].date = date_02_07_2025
    /\ Len(df.rows) = 2

----------------------------------------------------------------------------
(* Inputs for the state standardization *)

StateValues ==
    { Str(txt_West_Bengal), Str(txt_WEST_BENGAL), Str(txt_Westbengal),
      Str(txt_West_Bangal), Str(txt_WestBengal), Str(txt_West__Bengal),
      Str(txt_west_bengal), Str(txt_Orissa), Str(txt_Odisha),
      Str(txt_Jammu_amp_Kashmir), Str(txt_Jammu_And_Kashmir),
      Str(txt_Jammu_and_Kashmir), Str(txt_JAMMU_amp_KASHMIR),
      Str(txt_Dadra_and_Nagar_Haveli), Str(txt_Dadra_amp_Nagar_Haveli),
      Str(txt_Daman_and_Diu), Str(txt_Daman_amp_Diu),
      Str(txt_Dadra_and_Nagar_Haveli_and_Daman_and_Diu),
      Str(txt_andhra_pradesh), Str(txt_Andhra_Pradesh), Str(txt_100000),
      Str(txt_Kerala), Str(txt_Orissa_State), NaN }

\* rows that differ in the state and nothing else, and one malformed date
StateRows(sec) ==
    { Row(date_01_07_2025, st, Str(txt_X), Num(1), Counts(sec, 1)) :
        st \in StateValues }
    \cup { Row(date_2025_07_01, Str(txt_Kerala), Str(txt_X), Num(1),
               Counts(sec, 1)) }

\* the table holds at most two different rows (the claims about the state
\* column are about one row or about a pair of rows)
AtMostTwoSpellings(t) == Cardinality({t[i] : i \in 1..Len(t)}) <= 2

InitStates ==
    \/ \E t \in Tables(StateRows("Enrollment"), MaxStateRows) :
           /\ AtMostTwoSpellings(t)
           /\ TextColumn(t)
           /\ Start("Enrollment", t, AllOk("Enrollment"))
           /\ reruns = 0
    \/ \E sec \in Sections :
           \E t \in Tables(StateRows(sec), 1) :
               \E status \in FewFaults(sec) :
                   /\ TextColumn(t)
                   /\ Start(sec, t, status)
                   /\ reruns \in 0..MaxReruns

SpecStates == InitStates /\ [][Next]_vars

----------------------------------------------------------------------------
(* The Normalizer and the alias forms of the rewrite rules *)

\* dedup followed by the six state rewrite rules
Normalizer(t) == standardize_state(drop_duplicates(t))

\* the table as it enters the state standardization
Deduplicated == drop_duplicates(to_datetime(InputTable))

\* the state standardization has run (the state column is not assigned
\* again before fillna)
Standardized == pc \in {"feature_engineering", "fillna"}

UpperCase ==
    <<"A", "B", "C", "D", "E", "F", "G", "H", "I", "J", "K", "L", "M", "N",
      "O", "P", "Q", "R", "S", "T", "U", "V", "W", "X", "Y", "Z">>

LowerCase ==
    <<"a", "b", "c", "d", "e", "f", "g", "h", "i", "j", "k", "l", "m", "n",
      "o", "p", "q", "r", "s", "t", "u", "v", "w", "x", "y", "z">>

ToLower(c) ==
    IF \E i \in 1..26 : UpperCase[i] = c
    THEN LowerCase[CHOOSE i \in 1..26 : UpperCase[i] = c]
    ELSE c

EqualIgnoringCase(a, b) ==
    /\ Len(a) = Len(b)
    /\ \A i \in 1..Len(a) : ToLower(a[i]) = ToLower(b[i])

\* the alias forms of rules 1, 3 and 4 (spec 4.2), with their canonical text
AliasForms(rule) ==
    CASE rule = 1 -> {txt_West_Bengal, txt_WestBengal, txt_West__Bengal,
                      txt_Westbengal, txt_WEST_BENGAL, txt_West_Bangal}
      [] rule = 3 -> {txt_Jammu_and_Kashmir, txt_Jammu_amp_Kashmir,
                      txt_Jammu_And_Kashmir}
      [] rule = 4 -> {txt_Dadra_and_Nagar_Haveli_and_Daman_and_Diu,
                      txt_Dadra_and_Nagar_Haveli, txt_Dadra_amp_Nagar_Haveli,
                      txt_Daman_and_Diu, txt_Daman_amp_Diu}

Canonical(rule) ==
    CASE rule = 1 -> txt_West_Bengal
      [] rule = 3 -> txt_Jammu_and_Kashmir
      [] rule = 4 -> txt_Dadra_and_Nagar_Haveli_and_Daman_and_Diu

\* the pre-canonicalization forms: every alias that is not a canonical text
PreCanonicalForms ==
    ((AliasForms(1) \cup AliasForms(3) \cup AliasForms(4))
        \ {Canonical(1), Canonical(3), Canonical(4)})
    \cup {txt_Orissa, txt_andhra_pradesh, txt_100000}

\* the canonical text an alias form is to be replaced by
CanonicalOf(text) ==
    IF text \in AliasForms(1) THEN txt_West_Bengal
    ELSE IF text \in AliasForms(3) THEN txt_Jammu_and_Kashmir
    ELSE IF text \in AliasForms(4)
        THEN txt_Dadra_and_Nagar_Haveli_and_Daman_and_Diu
    ELSE IF text = txt_Orissa THEN txt_Odisha
    ELSE IF text = txt_andhra_pradesh THEN txt_Andhra_Pradesh
    ELSE txt_Unknown

\* one of the six rewrite rules matches the state value
MatchesSomeRule(cell) ==
    /\ cell.k = "str"
    /\ \/ Search(WestBengalPattern, cell.s)
       \/ Search(OrissaPattern, cell.s)
       \/ Search(JammuPattern, cell.s)
       \/ Search(DadraPattern, cell.s)
       \/ Search(AndhraPattern, cell.s)
       \/ cell.s = txt_100000

----------------------------------------------------------------------------
\* C5 as stated: running the Normalizer a second time on its own output
\* yields a table identical to that output.
C5_NormalizerIdempotent ==
    pc = "feature_engineering" => Normalizer(df.rows) = df.rows

\* C5, amended: a second run of the Normalizer on its own output changes no
\* state value and yields that output with the rows removed that the state
\* rewrite made equal to an earlier row; the result is identical to the
\* output whenever the output has no two equal rows.
C5_NormalizerSecondRun ==
    pc = "feature_engineering" =>
        LET again == Normalizer(df.rows)
        IN  /\ standardize_state(df.rows) = df.rows
            /\ again = drop_duplicates(df.rows)
            /\ RowSet(again) = RowSet(df.rows)
            /\ (\A i, j \in 1..Len(df.rows) :
                    i # j => df.rows[i] # df.rows[j])
                   => again = df.rows

\* two rows that differed only in the spelling of the state have been
\* rewritten to the same row, which a second run would remove
C5_Witness ==
    /\ pc = "feature_engineering"
    /\ Len(df.rows) = 2
    /\ df.rows[1] = df.rows[2]
    /\ Deduplicated[1].state # Deduplicated[2].state
    /\ Len(Normalizer(df.rows)) = 1

\* C6: after the state standardization no row's state is one of the
\* pre-canonicalization alias forms, and every row that entered with such a
\* form holds the form's canonical literal.
C6_NoAliasLeft ==
    Standardized =>
        LET before == Deduplicated
        IN  \A i \in 1..Len(df.rows) :
                /\ ~(df.rows[i].state.k = "str"
                       /\ df.rows[i].state.s \in PreCanonicalForms)
                /\ (before[i].state.k = "str"
                       /\ before[i].state.s \in PreCanonicalForms)
                   => df.rows[i].state = Str(CanonicalOf(before[i].state.s))

\* a table that entered with two different alias forms has been rewritten
C6_Witness ==
    /\ Standardized
    /\ Len(df.rows) = 2
    /\ Deduplicated[1].state = Str(txt_Orissa)
    /\ df.rows[1].state = Str(txt_Odisha)
    /\ Deduplicated[2].state = Str(txt_100000)
    /\ df.rows[2].state = Str(txt_Unknown)

C8_UnmatchedStateUnchanged ==
    pc = "statistics" =>
        /\ exception = "none"
        /\ LET before == Deduplicated
           IN  \A i \in 1..Len(df.rows) :
                   ~MatchesSomeRule(before[i].state)
                   => df.rows[i].state = before[i].state

----------------------------------------------------------------------------
(* Inputs for the feature engineering *)

\* a bucket count as read: a non-negative integer, or missing
CountCells == {Num(c) : c \in 0..MaxCount} \cup {NaN}

\* rows that differ in the bucket counts and nothing else, and one
\* malformed date
DeriveRows(sec) ==
    { Row(date_01_07_2025, Str(txt_Kerala), Str(txt_X), Num(1), cs) :
        cs \in [1..NumBuckets(sec) -> CountCells] }
    \cup { Row(date_2025_07_01, Str(txt_Kerala), Str(txt_X), Num(1),
               Counts(sec, 1)) }

\* the number of rows of the tables of a section: up to MaxDeriveRows for
\* the sections of two buckets, one for the section of three
DeriveTableRows(sec) == IF NumBuckets(sec) = 2 THEN MaxDeriveRows ELSE 1

InitDerive ==
    \/ \E sec \in Sections :
           \E t \in Tables(DeriveRows(sec), DeriveTableRows(sec)) :
               Start(sec, t, AllOk(sec)) /\ reruns = 0
    \/ \E sec \in Sections :
           \E t \in Tables(DeriveRows(sec), 1) :
               \E status \in FewFaults(sec) :
                   Start(sec, t, status) /\ reruns \in 0..MaxReruns

SpecDerive == InitDerive /\ [][Next]_vars

\* the derived table is complete: feature engineering and fillna have run
Derived == pc = "statistics"

\* a cell holds a number between 0 and 1
InUnitInterval(cell) == cell.k = "num" /\ 0 <= cell.n /\ cell.n <= cell.d

----------------------------------------------------------------------------
\* C9: in the derived table, a row with total > 0 has every proportion equal
\* to bucket/total, within [0, 1], and its proportions sum to 1; a row with
\* total = 0 has every proportion exactly 0; no proportion is NaN or
\* infinite.
C9_Proportions ==
    Derived =>
        \A i \in 1..Len(df.rows) :
            LET row == df.rows[i]
            IN  /\ row.total.k = "num"
                /\ \A b \in 1..Len(row.props) : row.props[b].k = "num"
                /\ row.total.n > 0 =>
                      /\ \A b \in 1..Len(row.props) :
                             /\ row.props[b].n * row.total.n
                                    = row.counts[b].n * row.props[b].d
                             /\ InUnitInterval(row.props[b])
                      /\ SumCells(row.props) = Num(1)
                /\ row.total.n = 0 =>
                      \A b \in 1..Len(row.props) : row.props[b] = Num(0)

\* the example of the claim, buckets (2, 3, 0): total 5 and proportions
\* 2/5, 3/5 and 0
C9_Witness ==
    /\ Derived
    /\ section = "Enrollment"
    /\ Len(df.rows) = 1
    /\ df.rows[1].counts = <<Num(2), Num(3), Num(0)>>
    /\ df.rows[1].total = Num(5)
    /\ df.rows[1].props = <<Ratio(2, 5), Ratio(3, 5), Num(0)>>

\* C10: in the derived table the total of every row equals the sum of the
\* row's bucket counts, is non-negative, and is 0 only if every bucket count
\* of the row is 0, also when a bucket count was missing and was filled.
C10_TotalIsSum ==
    Derived =>
        \A i \in 1..Len(df.rows) :
            LET row == df.rows[i]
            IN  /\ row.total = SumCells(row.counts)
                /\ row.total.k = "num" /\ row.total.n >= 0
                /\ row.total.n = 0 =>
                      \A b \in 1..Len(row.counts) : row.counts[b] = Num(0)

----------------------------------------------------------------------------
(* The table as it enters fillna *)

\* the deduplicated table with its states rewritten and its derived columns
BeforeFill == feature_engineering(standardize_state(Deduplicated))

\* the cells of a row
CellsOf(row) ==
    {row.state, row.district, row.pincode, row.total, row.year, row.month}
    \cup {row.counts[b] : b \in 1..Len(row.counts)}
    \cup {row.props[b] : b \in 1..Len(row.props)}

----------------------------------------------------------------------------
\* C11: after fillna no field of any row is null, and the fill has touched
\* only count and derived-ratio fields: the state, the district and the
\* pincode of every row are what they were before the fill.
C11_FillTouchesOnlyCounts ==
    Derived =>
        LET before == BeforeFill
        IN  \A i \in 1..Len(df.rows) :
                /\ \A cell \in CellsOf(df.rows[i]) : cell.k # "nan"
                /\ df.rows[i].state = before[i].state
                /\ df.rows[i].district = before[i].district
                /\ df.rows[i].pincode = before[i].pincode

\* some row of the concatenated input has a date that does not parse
SomeDateMalformed ==
    \E i \in 1..Len(InputTable) : ParseDate(InputTable[i].date) = NaT

\* C12: if the date of any row does not match the day-month-year format, the
\* run fails for the whole table: once load_data has returned all rows, the
\* script stops at the date parse with a ValueError, the table is left as it
\* was loaded, and no ranking, time series or concentration value is
\* computed from the rows whose dates are well formed.
C12_MalformedDateFatal ==
    (SomeDateMalformed /\ ~SomeFileFails) =>
        /\ pc \in {"load_data", "loaded", "to_datetime", "crashed"}
        /\ pc = "crashed" => exception = "ValueError"
        /\ pc # "load_data" => df.rows = InputTable
        /\ stats = NoStats

\* a table with two well-formed rows and one malformed date has ended the
\* run in a ValueError
C12_Witness ==
    /\ pc = "crashed"
    /\ exception = "ValueError"
    /\ Len(InputTable) = 3
    /\ ParseDate(InputTable[1].date) # NaT
    /\ ParseDate(InputTable[2].date) = NaT
    /\ ParseDate(InputTable[3].date) # NaT
    /\ df.rows = InputTable
    /\ stats = NoStats

----------------------------------------------------------------------------
(* Inputs for the rankings, the time series and the concentration indices *)

MaxAggRows == 2

txt_A == <<"A">>
txt_B == <<"B">>
date_01_12_2024 == <<"0", "1", "-", "1", "2", "-", "2", "0", "2", "4">>

\* the pincode of the rows of a district in a month: the two pincodes cut
\* across both the districts and the months
PincodeOf(dt, d) ==
    IF (dt = date_01_07_2025) <=> (d = txt_A) THEN 1 ELSE 2

\* rows of two months of different years, two districts and two pincodes,
\* with every bucket count 0 or 1, one row with every bucket count 2, and
\* one malformed date
AggregateRows(sec) ==
    { Row(dt, Str(txt_Kerala), Str(d), Num(PincodeOf(dt, d)), Counts(sec, c)) :
        dt \in {date_01_07_2025, date_01_12_2024}, d \in {txt_A, txt_B},
        c \in 0..1 }
    \cup { Row(date_01_07_2025, Str(txt_Kerala), Str(txt_A), Num(1),
               Counts(sec, 2)),
            Row(date_2025_07_01, Str(txt_Kerala), Str(txt_A), Num(1),
               Counts(sec, 1)) }

\* the district sums of the example of spec 4.5
ExampleSums == <<400, 100, 100, 100, 100, 50, 50, 50, 25, 25>>

\* the name of district number i: D00, D01, ...
DistrictName(i) ==
    <<"D", Digits[((i - 1) \div 10) + 1], Digits[((i - 1) % 10) + 1]>>

\* An Enrollment table of n rows, one for each of n districts, the sums of
\* the example repeated as often as needed, the smallest sum in the first
\* row; the rows are spread over three pincodes.
ConcentrationTable(n) ==
    [i \in 1..n |->
        LET j == n + 1 - i
        IN  Row(date_01_07_2025, Str(txt_Kerala), Str(DistrictName(j)),
                Num(j % 3),
                <<Num(ExampleSums[((j - 1) % 10) + 1]), Num(0), Num(0)>>)]

\* the numbers of districts of the example tables
ExampleSizes == {10, 15, 20}

\* rows in which the state, the district or the pincode is missing, and
\* rows in which none is
MissingKeyRows(sec) ==
    { Row(date_01_07_2025, NaN, Str(txt_A), Num(1), Counts(sec, 1)),
      Row(date_01_07_2025, Str(txt_Kerala), NaN, NaN, Counts(sec, 2)),
      Row(date_01_12_2024, Str(txt_Kerala), Str(txt_A), Num(1),
          Counts(sec, 1)),
      Row(date_01_07_2025, Str(txt_Kerala), Str(txt_B), NaN,
          Counts(sec, 1)) }

\* rows that differ in the spelling of the state and in nothing else: three
\* spellings the rules rewrite to "West Bengal", and "Kerala"
SpellingRows(sec) ==
    { Row(date_01_07_2025, Str(st), Str(txt_A), Num(1), Counts(sec, 1)) :
        st \in {txt_WEST_BENGAL, txt_Westbengal, txt_West_Bengal,
                txt_Kerala} }

InitAggregate ==
    \/ \E t \in Tables(AggregateRows("Enrollment"), MaxAggRows) :
           Start("Enrollment", t, AllOk("Enrollment")) /\ reruns = 0
    \/ \E t \in Tables(SpellingRows("Enrollment"), MaxAggRows) :
           Start("Enrollment", t, AllOk("Enrollment")) /\ reruns = 0
    \/ \E t \in Tables(MissingKeyRows("Enrollment"), MaxAggRows) :
           /\ TextColumn(t)
           /\ Start("Enrollment", t, AllOk("Enrollment"))
           /\ reruns = 0
    \/ \E n \in ExampleSizes :
           /\ Start("Enrollment", ConcentrationTable(n), AllOk("Enrollment"))
           /\ reruns = 0
    \/ \E sec \in Sections :
           \E t \in Tables(AggregateRows(sec), 1) :
               \E status \in FewFaults(sec) :
                   Start(sec, t, status) /\ reruns \in 0..MaxReruns

SpecAggregate == InitAggregate /\ [][Next]_vars

----------------------------------------------------------------------------
(* What the claims about section 4 speak about *)

GroupingKeys == {"state", "district", "pincode"}

\* the ranking the script holds for a grouping key
RankingOf(key) ==
    CASE key = "state" -> stats.by_state
      [] key = "district" -> stats.by_district
      [] key = "pincode" -> stats.by_pincode

\* the top 10 view the script shows for a grouping key
TopOf(key) ==
    CASE key = "state" -> stats.top_state
      [] key = "district" -> stats.top_district
      [] key = "pincode" -> stats.top_pincode

\* the three rankings have been computed
Ranked == stats.ties # "none"

\* the position of the first row of t whose key column holds k
FirstSeen(t, key, k) ==
    CHOOSE i \in 1..Len(t) : t[i][key] = k /\ \A j \in 1..(i - 1) : t[j][key] # k

\* one entry for each distinct key of the table, with the sum of the total
\* field over the key's rows, the larger sum first
IsRanking(r, t, key) ==
    /\ {r[i].key : i \in 1..Len(r)} = {t[i][key] : i \in 1..Len(t)}
    /\ \A i, j \in 1..Len(r) : i # j => r[i].key # r[j].key
    /\ \A i \in 1..Len(r) :
           r[i].sum = SeriesSum(TotalColumn(RowsOfKey(t, key, r[i].key)))
    /\ \A i, j \in 1..Len(r) : i < j => ~NumLess(r[i].sum, r[j].sum)

----------------------------------------------------------------------------
\* C13: for each grouping key the ranking holds one entry per distinct key
\* with the sum of the total field over the key's rows, in descending order
\* of the sums; keys with equal sums are in the order in which they are
\* first seen in the table; the top-N view is the first N entries.
C13_RankingFirstSeenTies ==
    Ranked =>
        \A key \in GroupingKeys :
            LET r == RankingOf(key)
            IN  /\ IsRanking(r, df.rows, key)
                /\ \A i, j \in 1..Len(r) :
                       (i < j /\ r[i].sum = r[j].sum)
                       => FirstSeen(df.rows, key, r[i].key)
                              < FirstSeen(df.rows, key, r[j].key)
                /\ TopOf(key) = SubSeq(r, 1, IF Len(r) < TopN THEN Len(r) ELSE TopN)

\* the cleaned and derived table the script computes from a loaded table
Cleaned(t) ==
    fillna(feature_engineering(standardize_state(drop_duplicates(
        to_datetime(t)))))

\* the bijections of 1..n
Bijections(n) == {p \in [1..n -> 1..n] : \A i, j \in 1..n : i # j => p[i] # p[j]}

\* all orderings of the rows of a table
Reorderings(t) == {[i \in 1..Len(t) |-> t[p[i]]] : p \in Bijections(Len(t))}

\* the rankings have just been computed
JustRanked == pc = "over_time"

\* C14: the ranking depends only on the multiset of rows.  For every
\* ordering of the rows of the input (tables of up to MaxAggRows rows), the
\* script computes, with the same sort, the ranked sequence of (key, sum) it
\* has just computed for the input as it is, the order of keys with equal
\* sums included.
C14_RankingOrderIndependent ==
    (JustRanked /\ Len(InputTable) <= MaxAggRows) =>
        \A t \in Reorderings(InputTable) :
            \A key \in GroupingKeys :
                Ranking(Cleaned(t), key, stats.ties) = RankingOf(key)

\* two different rows of two districts with equal sums have been ranked
C14_Witness ==
    /\ JustRanked
    /\ Len(InputTable) = 2
    /\ InputTable[1].district = Str(txt_B)
    /\ InputTable[2].district = Str(txt_A)
    /\ Len(stats.by_district) = 2
    /\ stats.by_district[1].sum = stats.by_district[2].sum
    /\ stats.by_district[1].sum # Num(0)
    /\ Cardinality(Reorderings(InputTable)) = 2

\* the keys the script computes a concentration index for
ConcentrationKeys == {"district", "pincode"}

\* n and the concentration percentage the script holds for a key
ConcentrationOf(key) ==
    CASE key = "district" ->
             [n |-> stats.n_districts,
              pct |-> stats.district_concentration_percentage]
      [] key = "pincode" ->
             [n |-> stats.n_pincodes,
              pct |-> stats.pincode_concentration_percentage]

\* C15: the concentration index of a ranking over N_keys keys is
\* 100 * (sum of the n largest key sums) / (sum of all key sums) with
\* n = max(1, floor(0.10 * N_keys)), for districts and for pincodes alike;
\* for the district sums [400,100,100,100,100,50,50,50,25,25] it is 40 with
\* n = 1.
C15_Concentration ==
    pc = "done" =>
        /\ \A key \in ConcentrationKeys :
               LET r == RankingOf(key)
                   N_keys == Len(r)
                   n == ConcentrationOf(key).n
                   pct == ConcentrationOf(key).pct
                   total == SeriesSum(Sums(r))
                   top == SeriesSum(Sums(SubSeq(r, 1, n)))
               IN  /\ n >= 1 /\ n <= N_keys
                   /\ N_keys < 10 => n = 1
                   /\ N_keys >= 10 => 10 * n <= N_keys /\ N_keys < 10 * (n + 1)
                   /\ \A i \in 1..n : \A j \in (n + 1)..N_keys :
                          ~NumLess(r[i].sum, r[j].sum)
                   /\ total.n > 0 =>
                          /\ pct.k = "num"
                          /\ pct.n * total.n = 100 * top.n * pct.d
        /\ Sums(stats.by_district) = [i \in 1..10 |-> Num(ExampleSums[i])]
           => /\ stats.n_districts = 1
              /\ stats.district_concentration_percentage = Num(40)

\* the example of the claim has been computed
C15_Witness ==
    /\ pc = "done"
    /\ Sums(stats.by_district) = [i \in 1..10 |-> Num(ExampleSums[i])]
    /\ SeriesSum(Sums(stats.by_district)) = Num(1000)
    /\ stats.n_districts = 1
    /\ stats.district_concentration_percentage = Num(40)
    /\ Len(stats.by_pincode) = 3

\* C16: when the sum of all key sums of a ranking is 0, computing the
\* concentration percentage ends in a divide-by-zero error: the run does not
\* get to report a concentration value for that ranking.
C16_ZeroTotalRaises ==
    \A key \in ConcentrationKeys :
        (Ranked /\ SeriesSum(Sums(RankingOf(key))) = Num(0)) =>
            /\ pc # "done"
            /\ pc = "crashed" => exception = "ZeroDivisionError"
            /\ ConcentrationOf(key) = [n |-> 0, pct |-> NaN]

\* C17: for a ranking with a positive total the concentration percentage is
\* monotonic in n: for all 1 <= n1 <= n2 <= N_keys the percentage of the
\* top n1 entries is at most the percentage of the top n2 entries.
C17_MonotonicInN ==
    Ranked =>
        \A key \in ConcentrationKeys :
            LET r == RankingOf(key)
            IN  SeriesSum(Sums(r)).n > 0 =>
                    \A n1, n2 \in 1..Len(r) :
                        n1 <= n2 =>
                            /\ concentration_percentage(r, n1).k = "num"
                            /\ concentration_percentage(r, n2).k = "num"
                            /\ ~NumLess(concentration_percentage(r, n2),
                                        concentration_percentage(r, n1))

\* a ranking of two districts with positive sums, where the top 2 entries
\* hold a larger share than the top 1
C17_Witness ==
    /\ Ranked
    /\ Len(stats.by_district) = 2
    /\ stats.by_district[2].sum.n > 0
    /\ NumLess(concentration_percentage(stats.by_district, 1),
               concentration_percentage(stats.by_district, 2))
    /\ concentration_percentage(stats.by_district, 2) = Num(100)

\* the table the first call of load_data returns for the files on disk
FirstReturn ==
    IF SomeFileFails THEN EmptyDataFrame
    ELSE [cols |-> TRUE, rows |-> InputTable]

\* the number of pd.read_csv calls of the first call of load_data: up to
\* and including the first file that cannot be read
FirstReads ==
    IF SomeFileFails
    THEN CHOOSE k \in 1..NumFiles(section) :
             /\ files[k].status # "ok"
             /\ \A j \in 1..(k - 1) : files[j].status = "ok"
    ELSE NumFiles(section)

\* C18: every call of a section's load_data, the first or a repeated one,
\* returns the table the first call returned, and a repeated call reads no
\* file; so it is after an earlier run has parsed the dates, dropped the
\* duplicates and rewritten the states in place on the table it got.
C18_CachedLoad ==
    /\ pc = "loaded" => df = FirstReturn /\ df_index = RangeIndex(Len(df.rows))
    /\ run > 1 => reads = FirstReads

\* the second run has got the loaded table of three rows, two of them
\* equal, which the first run had cut down to two rows
C18_Witness ==
    /\ run = 2
    /\ pc = "loaded"
    /\ ~SomeFileFails
    /\ Len(InputTable) = 3
    /\ InputTable[1] = InputTable[3]
    /\ Len(drop_duplicates(to_datetime(InputTable))) = 2
    /\ df.rows = InputTable
    /\ reads = NumFiles(section)

\* the time series has been computed
TimeSeriesComputed ==
    \/ pc \in {"age_groups", "concentration", "by_age_over_time", "done"}
    \/ pc = "crashed" /\ exception = "ZeroDivisionError"

\* C19: the time series has exactly one row for each (year, month) pair
\* present in the table, the year and the month being those of the row's
\* date; its value is the sum of the total field over the rows of the pair;
\* the rows are in ascending order of the year and then of the month.
C19_TimeSeries ==
    TimeSeriesComputed =>
        LET ts == stats.over_time
            t == df.rows
        IN  /\ \A i \in 1..Len(t) :
                   t[i].year = Num(t[i].date.y) /\ t[i].month = Num(t[i].date.m)
            /\ {[year |-> ts[i].year, month |-> ts[i].month] : i \in 1..Len(ts)}
                   = {[year |-> t[i].year, month |-> t[i].month] : i \in 1..Len(t)}
            /\ \A i, j \in 1..Len(ts) : i < j => PairLess(ts[i], ts[j])
            /\ \A i \in 1..Len(ts) :
                   ts[i].total = SeriesSum(TotalColumn(RowsOfPair(t, ts[i])))

\* a table with a row of July 2025 followed by a row of December 2024 has
\* the time series December 2024, July 2025
C19_Witness ==
    /\ TimeSeriesComputed
    /\ Len(df.rows) = 2
    /\ df.rows[1].date = [y |-> 2025, m |-> 7, d |-> 1]
    /\ df.rows[2].date = [y |-> 2024, m |-> 12, d |-> 1]
    /\ Len(stats.over_time) = 2
    /\ stats.over_time[1].year = Num(2024)
    /\ stats.over_time[1].month = Num(12)
    /\ stats.over_time[1].total = df.rows[2].total
    /\ stats.over_time[2].year = Num(2025)
    /\ stats.over_time[2].total.n > 0

\* the positions of the rows that an assignment of rows to files puts into
\* file k, in table order
RowsInFile(a, k) == SelectSeq([i \in 1..Len(a) |-> i], LAMBDA i : a[i] = k)

\* the partition files of a table for an assignment of its rows to n files
Partition(t, a, n) ==
    [k \in 1..n |-> [j \in 1..Len(RowsInFile(a, k)) |-> t[RowsInFile(a, k)[j]]]]

\* all ways of splitting the rows of a table into n partition files
Partitionings(t, n) == {Partition(t, a, n) : a \in [1..Len(t) -> 1..n]}

\* the time series has just been computed
JustTimeSeries == pc = "age_groups"

\* C20: the per-(year, month) sums do not depend on how the rows are split
\* into partition files.  For every split of the input rows into the
\* section's files (tables of up to MaxAggRows rows), loading, concatenating
\* and cleaning the files gives the time series the script has just
\* computed; hence any two splits give the same time series.
C20_PartitionIndependent ==
    (JustTimeSeries /\ Len(InputTable) <= MaxAggRows) =>
        \A parts \in Partitionings(InputTable, NumFiles(section)) :
            groupby_year_month(Cleaned(Flatten(parts))) = stats.over_time

\* two rows of the same month with different totals, which some split
\* loads in the other order, have been summed
C20_Witness ==
    /\ JustTimeSeries
    /\ Len(InputTable) = 2
    /\ InputTable[1].date = InputTable[2].date
    /\ Len(df.rows) = 2
    /\ df.rows[1].total # df.rows[2].total
    /\ Len(stats.over_time) = 1
    /\ stats.over_time[1].total = Add(df.rows[1].total, df.rows[2].total)
    /\ \E parts \in Partitionings(InputTable, NumFiles(section)) :
           Flatten(parts) = <<InputTable[2], InputTable[1]>>

----------------------------------------------------------------------------
\* the state standardization has run and the script has not stopped
AfterStandardization ==
    pc \in {"feature_engineering", "fillna", "statistics", "over_time",
            "age_groups", "concentration", "by_age_over_time", "done"}

\* two rows that differ in the spelling of the state and in nothing else
DifferOnlyInState(a, b) ==
    /\ a.state.k = "str" /\ b.state.k = "str"
    /\ a.state # b.state
    /\ [a EXCEPT !.state = NaN] = [b EXCEPT !.state = NaN]

\* C21: dedup runs before the state standardization and not again after
\* it.  From the standardization to the end of the run the table has one
\* row for each row that left the dedup, in the same order; so two input
\* rows that differ only in the spelling of the state are both in it, as
\* two rows equal in every input column, when the rewrite has given them
\* the same state name.
C21_DedupBeforeCanonicalization ==
    AfterStandardization =>
        LET before == Deduplicated
        IN  /\ Len(df.rows) = Len(before)
            /\ \A p \in 1..Len(before) : df.rows[p].date = before[p].date
            /\ \A p, q \in 1..Len(before) :
                   (/\ p < q
                    /\ DifferOnlyInState(before[p], before[q])
                    /\ df.rows[p].state = df.rows[q].state) =>
                       /\ df.rows[p].district = df.rows[q].district
                       /\ df.rows[p].pincode = df.rows[q].pincode
                       /\ df.rows[p].counts = df.rows[q].counts

\* two rows spelled "WEST BENGAL" and "Westbengal" and equal otherwise have
\* gone through the whole run and are two "West Bengal" rows at its end
C21_Witness ==
    /\ pc = "done"
    /\ Len(InputTable) = 2
    /\ InputTable[1].state = Str(txt_WEST_BENGAL)
    /\ InputTable[2].state = Str(txt_Westbengal)
    /\ DifferOnlyInState(InputTable[1], InputTable[2])
    /\ Len(Deduplicated) = 2
    /\ Len(df.rows) = 2
    /\ df.rows[1].state = Str(txt_West_Bengal)
    /\ df.rows[2].state = Str(txt_West_Bengal)

----------------------------------------------------------------------------
\* the (year, month) periods present in a table
Periods(t) == {[year |-> t[i].year, month |-> t[i].month] : i \in 1..Len(t)}

\* C22: the long-form per-bucket time series holds exactly one
\* (year, month, bucket-label, value) tuple for every combination of a
\* (year, month) period present in the table and a bucket of the section,
\* periods x buckets tuples in all, and the value is the sum of the bucket's
\* counts over the rows of the period.
C22_LongForm ==
    pc = "done" =>
        LET m == stats.df_melted
            labels == age_group_map(section)
        IN  /\ Len(m) = Cardinality(Periods(df.rows)) * NumBuckets(section)
            /\ \A p \in Periods(df.rows) :
                   \A b \in 1..NumBuckets(section) :
                       \E i \in 1..Len(m) :
                           /\ m[i].year = p.year
                           /\ m[i].month = p.month
                           /\ m[i].group = labels[b]
                           /\ m[i].value =
                                  SeriesSum(BucketColumn(
                                      RowsOfPair(df.rows, p), b))
                           /\ \A j \in 1..Len(m) :
                                  (/\ m[j].year = p.year
                                   /\ m[j].month = p.month
                                   /\ m[j].group = labels[b]) => j = i

\* an Enrollment table of two rows of different months has been melted into
\* six tuples, the tuples of the first bucket first, the earlier month first
C22_Witness ==
    /\ pc = "done"
    /\ section = "Enrollment"
    /\ Len(df.rows) = 2
    /\ df.rows[1].date = [y |-> 2025, m |-> 7, d |-> 1]
    /\ df.rows[2].date = [y |-> 2024, m |-> 12, d |-> 1]
    /\ Len(stats.df_melted) = 6
    /\ stats.df_melted[1] =
           [YearMonth |-> <<"2", "0", "2", "4", "-", "1", "2">>,
            year |-> Num(2024), month |-> Num(12), group |-> "0-5 Years",
            value |-> df.rows[2].counts[1]]
    /\ stats.df_melted[2].YearMonth = <<"2", "0", "2", "5", "-", "7">>
    /\ stats.df_melted[3].group = "5-17 Years"
    /\ stats.df_melted[6].group = "18+ Years"
    /\ stats.df_melted[6].value = df.rows[1].counts[3]
    /\ stats.df_melted[6].value.n > 0

----------------------------------------------------------------------------
\* the sum of the total field over all rows of the table
GrandTotal == SeriesSum(TotalColumn(df.rows))

\* the values of the time series
OverTimeTotals == [i \in 1..Len(stats.over_time) |-> stats.over_time[i].total]

\* C23: grouping loses and duplicates no volume.  Once the rankings and
\* the time series are computed, the sum of the values of the state
\* ranking, of the district ranking, of the pincode ranking and of the
\* (year, month) time series each equal the sum of the total field over all
\* rows of the cleaned table, the rows whose state, district or pincode was
\* missing in the input included.
C23_GrandTotals ==
    TimeSeriesComputed =>
        /\ \A key \in GroupingKeys :
               SeriesSum(Sums(RankingOf(key))) = GrandTotal
        /\ SeriesSum(OverTimeTotals) = GrandTotal

\* the statistics of a table of two rows are computed, one row read without
\* a state, the other without a district and without a pincode; each
\* ranking has a group for the missing key, and the totals are 3 + 6
C23_Witness ==
    /\ pc = "done"
    /\ Len(InputTable) = 2
    /\ InputTable[1].state = NaN
    /\ InputTable[2].district = NaN
    /\ InputTable[2].pincode = NaN
    /\ Len(df.rows) = 2
    /\ GrandTotal = Num(9)
    /\ \E i \in 1..2 : stats.by_state[i] = [key |-> Num(0), sum |-> Num(3)]
    /\ \E i \in 1..2 : stats.by_district[i] = [key |-> Num(0), sum |-> Num(6)]
    /\ \E i \in 1..2 : stats.by_pincode[i] = [key |-> Num(0), sum |-> Num(6)]
    /\ SeriesSum(Sums(stats.by_state)) = Num(9)

----------------------------------------------------------------------------
\* the bucket totals are computed and the run has not stopped on them
AgeTotalsComputed == pc \in {"concentration", "by_age_over_time", "done"}

\* overall_total_<x>: the sum of the per-bucket column sums
OverallTotal == SumCells(stats.age_totals)

\* C24: the denominator of the bucket percentages agrees with that of the
\* concentration indices: the sum of the per-bucket column sums equals the
\* sum of the per-row total field, which is the grand total of the district
\* ranking and of the pincode ranking, for every input table, the tables
\* with a missing bucket count in some row included.
C24_DenominatorsAgree ==
    AgeTotalsComputed =>
        /\ OverallTotal = GrandTotal
        /\ OverallTotal = SeriesSum(Sums(stats.by_district))
        /\ OverallTotal = SeriesSum(Sums(stats.by_pincode))

----------------------------------------------------------------------------
\* the two concentration indices are computed
ConcentrationComputed == pc \in {"by_age_over_time", "done"}

\* every bucket count of the cleaned table is a number that is not negative
NonNegativeCounts ==
    \A i \in 1..Len(df.rows) :
        \A b \in 1..Len(df.rows[i].counts) :
            /\ df.rows[i].counts[b].k = "num"
            /\ df.rows[i].counts[b].n >= 0

\* C25: whenever the cleaned table has at least one row, no negative bucket
\* count and a positive grand total, the top-decile count n of the
\* districts and of the pincodes is at least 1 and at most the number of
\* keys, and the district and the pincode concentration percentage are
\* numbers from 0 to 100.
C25_ConcentrationInRange ==
    (/\ ConcentrationComputed
     /\ Len(df.rows) >= 1
     /\ NonNegativeCounts
     /\ GrandTotal.n > 0) =>
        \A key \in ConcentrationKeys :
            LET n == ConcentrationOf(key).n
                pct == ConcentrationOf(key).pct
            IN  /\ 1 <= n
                /\ n <= Len(RankingOf(key))
                /\ pct.k = "num"
                /\ pct.d > 0
                /\ 0 <= pct.n
                /\ pct.n <= 100 * pct.d

\* twenty districts and three pincodes with a positive grand total: n is 2
\* of 20 and 1 of 3, and both percentages are strictly between 0 and 100
C25_Witness ==
    /\ pc = "done"
    /\ NonNegativeCounts
    /\ GrandTotal = Num(2000)
    /\ Len(stats.by_district) = 20
    /\ stats.n_districts = 2
    /\ stats.district_concentration_percentage = Num(40)
    /\ Len(stats.by_pincode) = 3
    /\ stats.n_pincodes = 1
    /\ stats.pincode_concentration_percentage.n > 0
    /\ stats.pincode_concentration_percentage.n
           < 100 * stats.pincode_concentration_percentage.d

====
